---- MODULE Spec2Model ----
(***************************************************************************)
(* UHT-Framework: the installation and synchronisation orchestrator.       *)
(*                                                                         *)
(*   lib/os_utils.py       get_os_type, check_command_exists,              *)
(*                         install_system_package,                         *)
(*                         install_python_requirements                     *)
(*   lib/tool_manager.py   get_installed_tools_names, install_tool         *)
(*   lib/update_checker.py check_for_tool_updates_and_new_tools            *)
(*   uht.py                the compatibility filter of main                *)
(*                                                                         *)
(* Strings the code inspects are sequences of chunks (a chunk is a word or *)
(* one whitespace character); a path is the sequence of its components; a  *)
(* command line is the sequence of its words.  A JSON value that may be    *)
(* null is a record [null, s].                                             *)
(*                                                                         *)
(* Every external process is an input of the host: whether it succeeds is  *)
(* chosen nondeterministically where the code starts it.                   *)
(***************************************************************************)
EXTENDS Naturals, Sequences, FiniteSets

VARIABLES
    host,                   \* the host signals get_os_type reads
    OS_TYPE,                \* uht.py:30, the value get_os_type returned
    detected,               \* every value get_os_type has returned on this host
    calls,                  \* number of get_os_type calls made
    category_tools,         \* uht.py:100, the tools of the selected category
    final_compatible_tools, \* uht.py:103, the list handed to display_tool_menu
    filtered,               \* whether the filter of uht.py:102-123 has run
    on_path,                \* the command names `which` resolves on this host
    package_name,           \* install_system_package's first argument
    os_type,                \* the os_type argument of the call followed
    ensure_calls,           \* number of install_system_package calls made
    cmds,                   \* the external processes the call followed has run
    ret,                    \* what the call followed returned, "none" before
    dirs,                   \* the directories that exist, as paths
    files,                  \* the regular files that exist, as paths
    pc,                     \* where the session around install_tool stands
    tool_data,              \* install_tool's first argument
    system_dependencies,    \* tool_manager.py:46
    dep_i,                  \* index of the next dependency to ensure
    post_j,                 \* index of the next post-install command
    ensured,                \* the install_system_package calls made: <<name, result>>
    exit_line,              \* the line of the return statement install_tool took
    pre_dirs,               \* the directories that existed when install_tool was called
    installed_tools_names,  \* uht.py:149, the result of the scan after the call
    succeeded,              \* whether an earlier install_tool call in the options
                            \* loop of the selected tool returned True
    local_tools_data,       \* the local catalog handed to the update check
    remote_tools_data,      \* the remote catalog handed to the update check
    installed_names,        \* uht.py:188, the installed names handed to it
    new_tools,              \* update_checker.py:51
    tools_to_update,        \* update_checker.py:52
    diffed,                 \* whether the update check has returned
    scan_order,             \* the order the last update scan took the installed names in
    git_outcome,            \* what git answered for each installed name in that scan
    TOOLS_DATA,             \* uht.py:29, the local catalog load_config read
    menu,                   \* the prompt the session waits at, or how it ended
    selected_tool_data,     \* uht.py:137
    via,                    \* the menu option that called install_tool
    update_checks,          \* number of update checks chosen in the main menu
    fetch_outcome           \* how the last request for the remote catalog ended

detectVars == <<host, detected, calls>>

filterVars == <<category_tools, final_compatible_tools, filtered>>

ensureVars == <<on_path, package_name, ensure_calls>>

callVars == <<os_type, cmds, ret>>

fsVars == <<dirs, files>>

installVars ==
    <<pc, tool_data, system_dependencies, dep_i, post_j, ensured, exit_line,
      pre_dirs, installed_tools_names, succeeded>>

diffVars ==
    <<local_tools_data, remote_tools_data, installed_names, new_tools,
      tools_to_update, diffed, scan_order, git_outcome>>

menuVars ==
    <<TOOLS_DATA, menu, selected_tool_data, via, update_checks, fetch_outcome>>

vars ==
    <<OS_TYPE, detectVars, filterVars, ensureVars, callVars, fsVars, installVars,
      diffVars, menuVars>>

(***************************************************************************)
(* Bounds of the model.                                                    *)
(***************************************************************************)
MaxDetectCalls == 2

MaxCategoryLen == 2

MaxEnsureCalls == 2

MaxDeps == 2

MaxPost == 2

(***************************************************************************)
(* JSON values and Python truthiness.                                      *)
(***************************************************************************)
Null == [null |-> TRUE, s |-> <<>>]

Str(x) == [null |-> FALSE, s |-> x]

\* `if v:` on an Optional[str]: None and "" are both false.
Truthy(v) == ~v.null /\ v.s # <<>>

(***************************************************************************)
(* lib/os_utils.py: get_os_type                                            *)
(***************************************************************************)
\* The values get_os_type can return.  The specification calls the second and
\* third debian_based and arch_based.
OSFamilies ==
    {"termux", "debian_based_linux", "arch_based_linux", "windows", "macos",
     "linux", "unsupported"}

DebianTokens == {"ID=debian", "ID_LIKE=debian", "ID=ubuntu"}

ArchTokens == {"ID=arch", "ID_LIKE=arch"}

\* platform.system() values: the three the code names and one it does not.
Systems == {"Linux", "Windows", "Darwin", "FreeBSD"}

\* /etc/os-release: absent, or present with some of the tokens as substrings.
OsReleases ==
    {[exists |-> FALSE, content |-> {}]}
    \cup {[exists |-> TRUE, content |-> c] : c \in SUBSET (DebianTokens \cup ArchTokens)}

Hosts ==
    [android_root : BOOLEAN, termux_dir : BOOLEAN, system : Systems,
     os_release : OsReleases]

get_os_type_lowercase(h) ==
    IF h.android_root \/ h.termux_dir THEN "termux"
    ELSE IF h.system = "Linux" THEN
        IF h.os_release.exists /\ h.os_release.content \cap DebianTokens # {}
        THEN "debian_based_linux"
        ELSE IF h.os_release.exists /\ h.os_release.content \cap ArchTokens # {}
        THEN "arch_based_linux"
        ELSE "linux"
    ELSE IF h.system = "Windows" THEN "windows"
    ELSE IF h.system = "Darwin" THEN "macos"
    ELSE "freebsd"

get_os_type(h) ==
    IF h.android_root \/ h.termux_dir THEN "termux"
    ELSE IF h.system = "Linux" THEN
        IF h.os_release.exists
        THEN IF h.os_release.content \cap DebianTokens # {}
             THEN "debian_based_linux"
             ELSE IF h.os_release.content \cap ArchTokens # {}
             THEN "arch_based_linux"
             ELSE "linux"
        ELSE "linux"
    ELSE IF h.system = "Windows" THEN "windows"
    ELSE IF h.system = "Darwin" THEN "macos"
    ELSE "unsupported"

\* The variables of get_os_type's calls when no call is being followed.
NoDetect ==
    /\ host = [android_root |-> FALSE, termux_dir |-> FALSE, system |-> "Linux",
               os_release |-> [exists |-> FALSE, content |-> {}]]
    /\ detected = {}
    /\ calls = 0

\* The variables of the compatibility filter when it is not being followed.
NoFilter ==
    /\ category_tools = <<>>
    /\ final_compatible_tools = <<>>
    /\ filtered = FALSE

\* The variables of install_system_package's direct calls when none is followed.
NoEnsure ==
    /\ on_path = {}
    /\ package_name = <<>>
    /\ ensure_calls = 0

\* No call with an os_type argument has been made.
NoCall ==
    /\ os_type = "none"
    /\ cmds = <<>>
    /\ ret = "none"

\* install_tool has not been called and nothing has been installed.
NoTool == [name |-> "none", github_url |-> Null, install_path |-> Null]

NoInstall ==
    /\ dirs = {}
    /\ files = {}
    /\ pc = "idle"
    /\ tool_data = NoTool
    /\ system_dependencies = <<>>
    /\ dep_i = 1
    /\ post_j = 1
    /\ ensured = <<>>
    /\ exit_line = 0
    /\ pre_dirs = {}
    /\ installed_tools_names = {}
    /\ succeeded = FALSE

\* The update check is not being followed.
NoDiff ==
    /\ local_tools_data = <<>>
    /\ remote_tools_data = <<>>
    /\ installed_names = {}
    /\ new_tools = <<>>
    /\ tools_to_update = <<>>
    /\ diffed = FALSE
    /\ scan_order = <<>>
    /\ git_outcome = <<>>

\* No menu session is being followed.
NoMenu ==
    /\ TOOLS_DATA = <<>>
    /\ menu = "none"
    /\ selected_tool_data = NoTool
    /\ via = "none"
    /\ update_checks = 0
    /\ fetch_outcome = "none"

InitDetect ==
    /\ host \in Hosts
    /\ OS_TYPE = "undetected"
    /\ detected = {}
    /\ calls = 0
    /\ NoFilter /\ NoEnsure /\ NoCall /\ NoInstall /\ NoDiff /\ NoMenu

\* One call of get_os_type on the host (uht.py:30, tool_manager.py:122).
Detect ==
    /\ calls < MaxDetectCalls
    /\ OS_TYPE' = get_os_type(host)
    /\ detected' = detected \cup {get_os_type(host)}
    /\ calls' = calls + 1
    /\ UNCHANGED <<host, filterVars, ensureVars, callVars, fsVars, installVars,
                   diffVars, menuVars>>

NextDetect == Detect

SpecDetect == InitDetect /\ [][NextDetect]_vars

\* C6: on a fixed host every call of get_os_type returns the same single value,
\* and that value is one of the seven OS families.
C6_DetectOneFamily ==
    calls > 0 =>
        /\ Cardinality(detected) = 1
        /\ detected \subseteq OSFamilies
        /\ OS_TYPE \in detected

\* A host that is none of the known platforms has been classified twice.
C6_Witness ==
    /\ calls = MaxDetectCalls
    /\ host.system = "FreeBSD"
    /\ ~host.android_root /\ ~host.termux_dir
    /\ OS_TYPE = "unsupported"

(***************************************************************************)
(* uht.py: the compatibility filter of main (lines 102-123)                *)
(***************************************************************************)
\* dict.get(key, default)
Get(d, key, default) == IF key \in DOMAIN d THEN d[key] ELSE default

\* `x in lst` on a list
InList(x, lst) == \E i \in 1..Len(lst) : lst[i] = x

NamePool == <<"sqlmap", "nmap", "hydra", "nikto">>

\* The os_compat arrays of the catalogs considered.
OsCompatLists ==
    {<<>>, <<"any">>, <<"debian_based_linux">>, <<"macos">>,
     <<"debian_based_linux", "macos">>, <<"macos", "any">>}

\* The tool definitions with name n, as far as the filter reads them: os_compat
\* and skip_if_os_not_supported may each be missing from the object.
FilterTools(n) ==
    [name : {n}, os_compat : OsCompatLists, skip_if_os_not_supported : BOOLEAN]
    \cup [name : {n}, os_compat : OsCompatLists]
    \cup [name : {n}, skip_if_os_not_supported : BOOLEAN]
    \cup [name : {n}]

\* The categories considered: at most MaxCategoryLen tools, names unique.
Categories ==
    UNION {{c \in [1..n -> UNION {FilterTools(NamePool[i]) : i \in 1..n}] :
              \A i \in 1..n : c[i].name = NamePool[i]} : n \in 0..MaxCategoryLen}

\* A variant of is_compatible whose third branch forgets `not skip_if_not_supported`.
is_compatible_ignoring_skip(tool, os) ==
    LET os_compat_list == Get(tool, "os_compat", <<>>)
    IN  IF InList(os, os_compat_list) THEN TRUE
        ELSE IF InList("any", os_compat_list) THEN TRUE
        ELSE IF os_compat_list = <<>> THEN TRUE
        ELSE FALSE

\* A variant of is_compatible without the branch for an empty os_compat list.
is_compatible_listed_only(tool, os) ==
    LET os_compat_list == Get(tool, "os_compat", <<>>)
    IN  InList(os, os_compat_list) \/ InList("any", os_compat_list)

\* uht.py:105-116
is_compatible(tool, os) ==
    LET os_compat_list == Get(tool, "os_compat", <<>>)
        skip_if_not_supported == Get(tool, "skip_if_os_not_supported", FALSE)
    IN  IF InList(os, os_compat_list) THEN TRUE
        ELSE IF InList("any", os_compat_list) THEN TRUE
        ELSE IF os_compat_list = <<>> /\ ~skip_if_not_supported THEN TRUE
        ELSE FALSE

\* uht.py:103-123, the loop from its i-th iteration on, acc the list so far.
RECURSIVE compatible_from(_, _, _, _)
compatible_from(tools, os, i, acc) ==
    IF i > Len(tools) THEN acc
    ELSE LET tool == tools[i]
             skip_if_not_supported == Get(tool, "skip_if_os_not_supported", FALSE)
         IN  IF skip_if_not_supported /\ ~is_compatible(tool, os)
             THEN compatible_from(tools, os, i + 1, acc)
             ELSE IF is_compatible(tool, os)
             THEN compatible_from(tools, os, i + 1, Append(acc, tool))
             ELSE compatible_from(tools, os, i + 1, acc)

InitFilter ==
    /\ OS_TYPE \in OSFamilies
    /\ category_tools \in Categories
    /\ final_compatible_tools = <<>>
    /\ filtered = FALSE
    /\ NoDetect /\ NoEnsure /\ NoCall /\ NoInstall /\ NoDiff /\ NoMenu

\* A category is selected in the main menu: uht.py:98-123.
Filter ==
    /\ ~filtered
    /\ final_compatible_tools' = compatible_from(category_tools, OS_TYPE, 1, <<>>)
    /\ filtered' = TRUE
    /\ UNCHANGED <<OS_TYPE, category_tools, detectVars, ensureVars, callVars,
                   fsVars, installVars, diffVars,
                   menuVars>>

NextFilter == Filter

SpecFilter == InitFilter /\ [][NextFilter]_vars

\* The precedence table of the compatibility decision, on the set of OS keys
\* a tool declares and its skip flag.
TableEligible(osCompat, skipIfOsNotSupported, osFamily) ==
    \/ osFamily \in osCompat
    \/ "any" \in osCompat
    \/ osCompat = {} /\ ~skipIfOsNotSupported

DeclaredCompat(tool) ==
    IF "os_compat" \in DOMAIN tool
    THEN {tool.os_compat[i] : i \in 1..Len(tool.os_compat)}
    ELSE {}

DeclaredSkip(tool) ==
    "skip_if_os_not_supported" \in DOMAIN tool /\ tool.skip_if_os_not_supported

EligibleIndexes ==
    {i \in 1..Len(category_tools) :
        TableEligible(DeclaredCompat(category_tools[i]),
                      DeclaredSkip(category_tools[i]), OS_TYPE)}

\* C3: the list shown for a category holds exactly the tools the precedence
\* table makes eligible, each once and in catalog order; a tool that is not
\* eligible (skip flag set or not) is not in it.
C3_FilterMatchesTable ==
    filtered =>
        /\ Len(final_compatible_tools) = Cardinality(EligibleIndexes)
        /\ \A i \in 1..Len(category_tools) :
              InList(category_tools[i], final_compatible_tools) <=> i \in EligibleIndexes
        /\ \A i, j \in 1..Len(final_compatible_tools) :
              i < j =>
                \E a, b \in 1..Len(category_tools) :
                    /\ a < b
                    /\ category_tools[a] = final_compatible_tools[i]
                    /\ category_tools[b] = final_compatible_tools[j]

\* nmap with os_compat [debian_based_linux] and the skip flag, on macos, next
\* to a tool without any compatibility list: only the second is listed.
C3_Witness ==
    /\ filtered
    /\ OS_TYPE = "macos"
    /\ Len(category_tools) = 2
    /\ category_tools[2] = [name |-> "nmap", os_compat |-> <<"debian_based_linux">>,
                             skip_if_os_not_supported |-> TRUE]
    /\ category_tools[1] = [name |-> "sqlmap"]
    /\ final_compatible_tools = <<[name |-> "sqlmap"]>>

\* C18 as stated: a tool with an empty osCompat is listed on every OS family,
\* whatever its skip flag.
C18_EmptyCompatAlwaysListed ==
    filtered =>
        \A i \in 1..Len(category_tools) :
            DeclaredCompat(category_tools[i]) = {} =>
                InList(category_tools[i], final_compatible_tools)

\* C18 amended: a tool with an empty osCompat whose skip flag is false (or not
\* given) is listed on every OS family; with the skip flag true it is not.
C18_EmptyCompatListedUnlessSkipped ==
    filtered =>
        \A i \in 1..Len(category_tools) :
            DeclaredCompat(category_tools[i]) = {} =>
                (InList(category_tools[i], final_compatible_tools)
                    <=> ~DeclaredSkip(category_tools[i]))

\* On an unsupported OS a tool with the empty list and the flag false is listed
\* next to one with the empty list and the flag true, which is not.
C18_Witness ==
    /\ filtered
    /\ OS_TYPE = "unsupported"
    /\ Len(category_tools) = 2
    /\ category_tools[1] = [name |-> "sqlmap", os_compat |-> <<>>,
                             skip_if_os_not_supported |-> FALSE]
    /\ category_tools[2] = [name |-> "nmap", os_compat |-> <<>>,
                             skip_if_os_not_supported |-> TRUE]
    /\ final_compatible_tools = <<category_tools[1]>>

(***************************************************************************)
(* lib/os_utils.py: external processes, check_command_exists,              *)
(* install_system_package                                                  *)
(***************************************************************************)
Whitespace == {" ", "\t"}

\* str.strip() == "": dropping leading and trailing whitespace leaves nothing.
RECURSIVE LStrip(_)
LStrip(str) ==
    IF str # <<>> /\ Head(str) \in Whitespace THEN LStrip(Tail(str)) ELSE str

RECURSIVE RStrip(_)
RStrip(str) ==
    IF str # <<>> /\ str[Len(str)] \in Whitespace
    THEN RStrip(SubSeq(str, 1, Len(str) - 1))
    ELSE str

Strip(str) == RStrip(LStrip(str))

\* One external process: its command line, its working directory (<<>> when
\* none is given) and whether it exited with status 0.
Proc(argv, cwd, ok) == [argv |-> argv, cwd |-> cwd, ok |-> ok]

RetOf(b) == IF b THEN "True" ELSE "False"

\* check_command_exists(command_name) on a host resolving the names in path:
\* the process run and the value returned.
check_command_exists(command_name, path) ==
    [found |-> command_name \in path,
     cmds |-> <<Proc(<<"which">> \o command_name, <<>>, command_name \in path)>>]

\* os_utils.py:105
SpecialPackages ==
    {<<"python">>, <<"python3">>, <<"pip">>, <<"pip3">>, <<"go">>, <<"java">>,
     <<"perl">>, <<"ruby">>, <<"bash">>, <<"powershell">>}

\* A variant of the presence check that does not look for javac.
presence_check_without_fallback(package_name_, path) ==
    check_command_exists(package_name_, path)

\* os_utils.py:104-117: whether the package is found, and the checks made.
presence_check(package_name_, path) ==
    LET first == check_command_exists(package_name_, path)
    IN  IF package_name_ \in SpecialPackages
        THEN IF first.found THEN first
             ELSE IF package_name_ = <<"java">>
             THEN LET java == check_command_exists(<<"java">>, path)
                      javac == check_command_exists(<<"javac">>, path)
                  IN  IF java.found
                      THEN [found |-> TRUE, cmds |-> first.cmds \o java.cmds]
                      ELSE [found |-> javac.found,
                            cmds |-> first.cmds \o java.cmds \o javac.cmds]
             ELSE first
        ELSE first

\* A variant of the command selection that takes generic Linux for Debian.
select_commands_linux_as_debian(package_name_, os_type_, path) ==
    IF os_type_ \in {"debian_based_linux", "linux"}
    THEN [ok |-> TRUE, update_cmd |-> <<"sudo", "apt", "update", "-y">>,
          install_cmd |-> <<"sudo", "apt", "install", "-y">> \o package_name_,
          cmds |-> <<>>]
    ELSE [ok |-> FALSE, update_cmd |-> <<>>, install_cmd |-> <<>>, cmds |-> <<>>]

\* os_utils.py:120-159: the package-manager command pair for os_type_, the
\* checks made to choose it, and whether one was found at all.
select_commands(package_name_, os_type_, path) ==
    LET none == <<>>
        pair(u, i, c) == [ok |-> TRUE, update_cmd |-> u, install_cmd |-> i, cmds |-> c]
        fail(c) == [ok |-> FALSE, update_cmd |-> none, install_cmd |-> none, cmds |-> c]
        choco == check_command_exists(<<"choco">>, path)
        winget == check_command_exists(<<"winget">>, path)
        brew == check_command_exists(<<"brew">>, path)
    IN  IF os_type_ = "termux"
        THEN pair(<<"pkg", "update", "-y">>,
                  <<"pkg", "install", "-y">> \o package_name_, <<>>)
        ELSE IF os_type_ = "debian_based_linux"
        THEN pair(<<"sudo", "apt", "update", "-y">>,
                  <<"sudo", "apt", "install", "-y">> \o package_name_, <<>>)
        ELSE IF os_type_ = "arch_based_linux"
        THEN pair(<<"sudo", "pacman", "-Sy", "--noconfirm">>,
                  <<"sudo", "pacman", "-S", "--noconfirm">> \o package_name_, <<>>)
        ELSE IF os_type_ = "windows"
        THEN IF choco.found
             THEN pair(none, <<"choco", "install", "-y">> \o package_name_, choco.cmds)
             ELSE IF winget.found
             THEN pair(none, <<"winget", "install", "-e", "--id">> \o package_name_,
                       choco.cmds \o winget.cmds)
             ELSE fail(choco.cmds \o winget.cmds)
        ELSE IF os_type_ = "macos"
        THEN IF brew.found
             THEN pair(<<"brew", "update">>, <<"brew", "install">> \o package_name_,
                       brew.cmds)
             ELSE fail(brew.cmds)
        ELSE fail(<<>>)

\* A variant in which a failed update command ends the call with False.
run_commands_update_fatal(sel, update_ok, install_ok) ==
    IF sel.update_cmd # <<>> /\ ~update_ok
    THEN [ret |-> FALSE, cmds |-> <<Proc(sel.update_cmd, <<>>, update_ok)>>]
    ELSE [ret |-> install_ok,
          cmds |-> (IF sel.update_cmd # <<>>
                    THEN <<Proc(sel.update_cmd, <<>>, update_ok)>> ELSE <<>>)
                   \o <<Proc(sel.install_cmd, <<>>, install_ok)>>]

\* os_utils.py:161-171: the update command, then the install command.
run_commands(sel, update_ok, install_ok) ==
    LET update == IF sel.update_cmd # <<>>
                  THEN <<Proc(sel.update_cmd, <<>>, update_ok)>>
                  ELSE <<>>
    IN  IF sel.install_cmd # <<>>
        THEN [ret |-> install_ok,
              cmds |-> update \o <<Proc(sel.install_cmd, <<>>, install_ok)>>]
        ELSE [ret |-> FALSE, cmds |-> update]

\* A variant of install_system_package that compares the name with "" without
\* stripping it.
install_system_package_unstripped(package_name_, os_type_, path, update_ok, install_ok) ==
    IF package_name_ = <<>> THEN [ret |-> TRUE, cmds |-> <<>>]
    ELSE LET present == presence_check(package_name_, path)
             sel == select_commands(package_name_, os_type_, path)
             run == run_commands(sel, update_ok, install_ok)
         IN  IF present.found THEN [ret |-> TRUE, cmds |-> present.cmds]
             ELSE IF ~sel.ok THEN [ret |-> FALSE, cmds |-> present.cmds \o sel.cmds]
             ELSE [ret |-> run.ret, cmds |-> present.cmds \o sel.cmds \o run.cmds]

\* install_system_package(package_name, os_type) on a host resolving the names
\* in path, where the update and install commands end as update_ok and
\* install_ok say: the value returned and the processes run, in order.
install_system_package(package_name_, os_type_, path, update_ok, install_ok) ==
    IF Strip(package_name_) = <<>> THEN [ret |-> TRUE, cmds |-> <<>>]
    ELSE LET present == presence_check(package_name_, path)
             sel == select_commands(package_name_, os_type_, path)
             run == run_commands(sel, update_ok, install_ok)
         IN  IF present.found THEN [ret |-> TRUE, cmds |-> present.cmds]
             ELSE IF ~sel.ok THEN [ret |-> FALSE, cmds |-> present.cmds \o sel.cmds]
             ELSE [ret |-> run.ret, cmds |-> present.cmds \o sel.cmds \o run.cmds]

\* The package names passed in: empty, whitespace only, padded, plain, special.
PackageNames ==
    {<<>>, <<" ">>, <<"\t", " ">>, <<" ", "git">>, <<"git">>, <<"java">>}

\* The command names a host may resolve.
CommandNames ==
    {<<"git">>, <<"java">>, <<"javac">>, <<"choco">>, <<"winget">>, <<"brew">>}

\* The os_type arguments: the seven families and a value get_os_type never returns.
OsTypeArgs == OSFamilies \cup {"haiku"}

IsPackageManagerCommand(c) ==
    c.argv[1] \in {"pkg", "sudo", "choco", "winget", "brew"}

InitEnsure ==
    /\ on_path \in SUBSET CommandNames
    /\ package_name \in PackageNames
    /\ os_type \in OsTypeArgs
    /\ ensure_calls = 0
    /\ cmds = <<>>
    /\ ret = "none"
    /\ OS_TYPE = "undetected"
    /\ NoDetect /\ NoFilter /\ NoInstall /\ NoDiff /\ NoMenu

\* One call install_system_package(package_name, os_type), as uht.py:197 makes
\* it.  A package manager that installed the package may have put a command of
\* that name on the path.
Ensure ==
    /\ ensure_calls < MaxEnsureCalls
    /\ \E update_ok, install_ok \in BOOLEAN :
         LET r == install_system_package(package_name, os_type, on_path,
                                         update_ok, install_ok)
             installed == \E i \in 1..Len(r.cmds) :
                              IsPackageManagerCommand(r.cmds[i]) /\ r.ret
         IN  /\ cmds' = r.cmds
             /\ ret' = RetOf(r.ret)
             /\ \/ on_path' = on_path
                \/ installed /\ on_path' = on_path \cup {Strip(package_name)}
    /\ ensure_calls' = ensure_calls + 1
    /\ UNCHANGED <<OS_TYPE, package_name, os_type, detectVars, filterVars,
                   fsVars, installVars, diffVars,
                   menuVars>>

NextEnsure == Ensure

SpecEnsure == InitEnsure /\ [][NextEnsure]_vars

\* C5: install_system_package with an empty or whitespace-only name returns
\* True on every os_type and runs no external process at all.
C5_BlankNameTrivial ==
    (ensure_calls > 0 /\ \A i \in 1..Len(package_name) : package_name[i] \in Whitespace)
        => (ret = "True" /\ cmds = <<>>)

\* A name of a tab and a space has been passed on an OS without auto-install.
C5_Witness ==
    /\ ensure_calls > 0
    /\ package_name = <<"\t", " ">>
    /\ os_type = "unsupported"
    /\ ret = "True"

\* The presence check as the contract states it: an executable of the
\* package's name is on the search path, or javac is for the package java.
Present(name, path) == name \in path \/ (name = <<"java">> /\ <<"javac">> \in path)

\* The step is a call of install_system_package.
EnsureStep == ensure_calls' = ensure_calls + 1

PackageManagerRun(log) == SelectSeq(log, IsPackageManagerCommand)

\* C12: called for a package the presence check finds, install_system_package
\* returns True on every os_type, runs no package-manager command, and leaves
\* the search path as it was, so that the next call finds the package again.
C12_PresentReturnsAtOnce ==
    [][(EnsureStep /\ Present(package_name, on_path)) =>
          /\ ret' = "True"
          /\ PackageManagerRun(cmds') = <<>>
          /\ on_path' = on_path]_vars

\* java has been ensured twice on an unsupported OS where only javac is found.
C12_Witness ==
    /\ ensure_calls = 2
    /\ package_name = <<"java">>
    /\ os_type = "unsupported"
    /\ <<"java">> \notin on_path
    /\ <<"javac">> \in on_path
    /\ ret = "True"
    /\ Len(cmds) = 3

\* The OS families for which a package manager is known.
AutoInstallFamilies ==
    {"termux", "debian_based_linux", "arch_based_linux", "windows", "macos"}

\* C13: called for a package that is absent on an os_type outside the five
\* families with a package manager, install_system_package returns False and
\* runs no package-manager command.
C13_NoManagerFailsAtOnce ==
    [][(/\ EnsureStep
        /\ Strip(package_name) # <<>>
        /\ ~Present(package_name, on_path)
        /\ os_type \notin AutoInstallFamilies) =>
          /\ ret' = "False"
          /\ PackageManagerRun(cmds') = <<>>]_vars

\* git was absent on an os_type get_os_type never returns, and on generic Linux.
C13_Witness ==
    /\ ensure_calls > 0
    /\ package_name = <<"git">>
    /\ os_type \in {"haiku", "linux"}
    /\ <<"git">> \notin on_path
    /\ ret = "False"
    /\ cmds = <<Proc(<<"which", "git">>, <<>>, FALSE)>>

\* A package manager is selected: the family has one and, on windows and
\* macos, the manager itself is on the search path.
ManagerSelected(os, path) ==
    \/ os \in {"termux", "debian_based_linux", "arch_based_linux"}
    \/ os = "windows" /\ (<<"choco">> \in path \/ <<"winget">> \in path)
    \/ os = "macos" /\ <<"brew">> \in path

\* The families whose package manager has an update command.
UpdateDefined(os) == os \in {"termux", "debian_based_linux", "arch_based_linux", "macos"}

IsUpdateCommand(c) == InList("update", c.argv) \/ InList("-Sy", c.argv)

IsInstallCommand(c) == InList("install", c.argv) \/ InList("-S", c.argv)

\* C20: for an absent package with a package manager selected, the update
\* command (where the family has one) runs first and the install command runs
\* after it whatever the update's outcome; the value returned is the install
\* command's success.
C20_UpdateThenInstall ==
    [][(/\ EnsureStep
        /\ Strip(package_name) # <<>>
        /\ ~Present(package_name, on_path)
        /\ ManagerSelected(os_type, on_path)) =>
          LET run == PackageManagerRun(cmds')
          IN  /\ Len(run) = (IF UpdateDefined(os_type) THEN 2 ELSE 1)
              /\ UpdateDefined(os_type) => IsUpdateCommand(run[1])
              /\ IsInstallCommand(run[Len(run)])
              /\ run[Len(run)] = cmds'[Len(cmds')]
              /\ ret' = RetOf(run[Len(run)].ok)]_vars

\* On Debian the update command failed, the install command ran and succeeded.
C20_Witness ==
    /\ ensure_calls > 0
    /\ os_type = "debian_based_linux"
    /\ Len(cmds) = 3
    /\ cmds[2] = Proc(<<"sudo", "apt", "update", "-y">>, <<>>, FALSE)
    /\ cmds[3] = Proc(<<"sudo", "apt", "install", "-y", "git">>, <<>>, TRUE)
    /\ ret = "True"

(***************************************************************************)
(* lib/os_utils.py: install_python_requirements                            *)
(***************************************************************************)
\* Path.exists()
Exists(path_, ds, fs) == path_ \in ds \cup fs

\* install_python_requirements(tool_path) with the files fs on disk, on a host
\* resolving the names in path, where the installer command ends as pip_ok says.
install_python_requirements(tool_path, ds, fs, path, pip_ok) ==
    LET req_file == tool_path \o <<"requirements.txt">>
        pip3 == check_command_exists(<<"pip3">>, path)
        pip == check_command_exists(<<"pip">>, path)
        run(base, checks) ==
            [ret |-> pip_ok,
             cmds |-> checks \o <<Proc(base \o <<"install", "-r">> \o req_file, <<>>, pip_ok)>>]
    IN  IF Exists(req_file, ds, fs)
        THEN IF pip3.found THEN run(<<"pip3">>, pip3.cmds)
             ELSE IF pip.found THEN run(<<"pip">>, pip3.cmds \o pip.cmds)
             ELSE [ret |-> FALSE, cmds |-> pip3.cmds \o pip.cmds]
        ELSE [ret |-> FALSE, cmds |-> <<>>]

(***************************************************************************)
(* lib/tool_manager.py: get_installed_tools_names                          *)
(***************************************************************************)
\* uht.py:27
TOOLS_DIR == <<"tools">>

Parent(path_) == SubSeq(path_, 1, Len(path_) - 1)

BaseName(path_) == path_[Len(path_)]

\* Path.suffix, on the file names that occur.
Suffix(name) == IF name \in {"requirements.txt", "rockyou.txt"} THEN ".txt" ELSE ""

get_installed_tools_names(tools_dir, ds, fs) ==
    IF Exists(tools_dir, ds, fs)
    THEN {BaseName(d) : d \in {x \in ds : Len(x) > 0 /\ Parent(x) = tools_dir}}
         \cup {BaseName(f) : f \in {x \in fs : /\ Len(x) > 0
                                              /\ Parent(x) = tools_dir
                                              /\ Suffix(BaseName(x)) = ".txt"}}
    ELSE {}

\* A variant of the assignment that keeps the set it already has.
rescan_cached(previous, ds, fs) == previous

\* uht.py:125, 149, 166: installed_tools_names = get_installed_tools_names(TOOLS_DIR)
rescan(previous, ds, fs) == get_installed_tools_names(TOOLS_DIR, ds, fs)

(***************************************************************************)
(* lib/tool_manager.py: install_tool                                       *)
(***************************************************************************)
ToolNames == {"sqlmap", "nmap"}

SourceURLs == {Null, Str(<<"https://example/sqlmap">>)}

InstallPaths == {Null, Str(<<"tools", "sqlmap">>)}

\* The package names tools declare as dependencies.
DependencyNames == {<<"git">>, <<"java">>}

RECURSIVE SeqsUpTo(_, _)
SeqsUpTo(S, n) ==
    IF n = 0 THEN {<<>>}
    ELSE SeqsUpTo(S, n - 1)
         \cup {Append(q, x) : q \in {r \in SeqsUpTo(S, n - 1) : Len(r) = n - 1}, x \in S}

DependencyLists == SeqsUpTo(DependencyNames, MaxDeps)

\* The `dependencies` objects: no entry, a default entry, an entry for one OS
\* family, or both (then with an empty or a differing OS-specific list).
DependencyMaps ==
    {<<>>}
    \cup [default : DependencyLists]
    \cup [debian_based_linux : DependencyLists]
    \cup [debian_based_linux : {<<>>, <<<<"git">>>>}, default : {<<<<"java">>>>}]

\* Post-install command templates; the second names the install path.
PostPool == << <<"make">>, <<"chmod", "+x", "{{install_path}}", "/setup.sh">>,
               <<"./setup.sh">> >>

PostLists == {SubSeq(PostPool, 1, n) : n \in 0..MaxPost}

\* The tool definitions install_tool is called with; `dependencies` and
\* `post_install_commands` may each be missing from the object.
InstallTools ==
    [name : ToolNames, github_url : SourceURLs, install_path : InstallPaths,
     dependencies : DependencyMaps, post_install_commands : PostLists]
    \cup [name : ToolNames, github_url : SourceURLs, install_path : InstallPaths,
          dependencies : DependencyMaps]
    \cup [name : ToolNames, github_url : SourceURLs, install_path : InstallPaths,
          post_install_commands : PostLists]
    \cup [name : ToolNames, github_url : SourceURLs, install_path : InstallPaths]

\* The os_type arguments install_tool is followed with: a family with an entry
\* in the dependency maps and a package manager, and one with neither.
InstallOsTypes == {"debian_based_linux", "unsupported"}

\* tool_manager.py:39; <<>> stands for None.
tool_full_path_of(tool) ==
    IF Truthy(tool.install_path) THEN tool.install_path.s ELSE <<>>

\* A variant of the dependency lookup that reads the default entry only.
resolve_dependencies_default_only(tool, os_type_) ==
    IF "dependencies" \in DOMAIN tool
    THEN Get(tool.dependencies, "default", <<>>)
    ELSE <<>>

\* tool_manager.py:45-46; without a `dependencies` key no dependency is ensured.
resolve_dependencies(tool, os_type_) ==
    IF "dependencies" \in DOMAIN tool
    THEN Get(tool.dependencies, os_type_, Get(tool.dependencies, "default", <<>>))
    ELSE <<>>

\* The commands whose presence a call of install_system_package can observe.
ObservableCommands(package_name_, os_type_) ==
    {package_name_}
    \cup (IF package_name_ = <<"java">> THEN {<<"javac">>} ELSE {})
    \cup (IF os_type_ = "windows" THEN {<<"choco">>, <<"winget">>} ELSE {})
    \cup (IF os_type_ = "macos" THEN {<<"brew">>} ELSE {})

\* A variant of the fetch command that clones whatever is on disk.
fetch_argv_always_clone(repo_url, tool_full_path, exists) ==
    <<"git", "clone">> \o repo_url \o tool_full_path

\* tool_manager.py:63-72: pull where the path exists, clone where it does not.
fetch_argv(repo_url, tool_full_path, exists) ==
    IF exists
    THEN <<"git", "-C">> \o tool_full_path \o <<"pull">>
    ELSE <<"git", "clone">> \o repo_url \o tool_full_path

\* mkdir(parents=True, exist_ok=True): the directory and every ancestor.
MkdirParents(path_) == {SubSeq(path_, 1, n) : n \in 1..Len(path_)}

\* A variant that goes on to the post-install commands after a failed fetch.
after_fetch_ignoring_failure(ok) == "post_check"

\* tool_manager.py:66-68, 72-74: a failed pull or clone returns False.
after_fetch(ok) == IF ok THEN "post_check" ELSE "returned"

\* A variant that runs the post-install commands of a tool not on disk.
post_install_applies_without_path(tool, ds, fs) ==
    /\ "post_install_commands" \in DOMAIN tool
    /\ tool.post_install_commands # <<>>

\* tool_manager.py:84-86
post_install_applies(tool, ds, fs) ==
    /\ "post_install_commands" \in DOMAIN tool
    /\ tool.post_install_commands # <<>>
    /\ tool_full_path_of(tool) # <<>>
    /\ Exists(tool_full_path_of(tool), ds, fs)

\* str.replace("{{install_path}}", str(tool_full_path)) on a command's words.
RECURSIVE ReplacePlaceholder(_, _)
ReplacePlaceholder(cmd, tool_full_path) ==
    IF cmd = <<>> THEN <<>>
    ELSE (IF Head(cmd) = "{{install_path}}" THEN tool_full_path ELSE <<Head(cmd)>>)
         \o ReplacePlaceholder(Tail(cmd), tool_full_path)

\* A variant that hands on what install_python_requirements returned.
after_requirements_strict(handled) == RetOf(handled)

\* tool_manager.py:104-111: when install_python_requirements returns False a
\* warning is printed, and install_tool returns True either way.
after_requirements(handled) == "True"

InitInstall ==
    /\ NoInstall /\ NoCall /\ NoEnsure /\ NoDetect /\ NoFilter /\ NoDiff /\ NoMenu
    /\ OS_TYPE = "undetected"

\* uht.py:148 calls install_tool; tool_manager.py:36-48.
CallInstallTool ==
    /\ pc = "idle"
    /\ \E tool \in InstallTools, os \in InstallOsTypes :
         /\ tool_data' = tool
         /\ os_type' = os
         /\ system_dependencies' = resolve_dependencies(tool, os)
    /\ dep_i' = 1
    /\ post_j' = 1
    /\ ensured' = <<>>
    /\ cmds' = <<>>
    /\ ret' = "none"
    /\ exit_line' = 0
    /\ pre_dirs' = dirs
    /\ pc' = "deps"
    /\ UNCHANGED <<OS_TYPE, detectVars, filterVars, ensureVars, diffVars, fsVars,
                   installed_tools_names, succeeded,
                   menuVars>>

\* tool_manager.py:50-54: one dependency is ensured; a failure returns False.
EnsureDep ==
    /\ pc = "deps"
    /\ dep_i <= Len(system_dependencies)
    /\ LET dep == system_dependencies[dep_i]
       IN  \E path \in SUBSET ObservableCommands(dep, os_type),
              update_ok, install_ok \in BOOLEAN :
             LET r == install_system_package(dep, os_type, path, update_ok, install_ok)
             IN  /\ cmds' = cmds \o r.cmds
                 /\ ensured' = Append(ensured, <<dep, r.ret>>)
                 /\ IF r.ret
                    THEN /\ dep_i' = dep_i + 1
                         /\ UNCHANGED <<pc, ret, exit_line>>
                    ELSE /\ pc' = "returned"
                         /\ ret' = "False"
                         /\ exit_line' = 54
                         /\ UNCHANGED dep_i
    /\ UNCHANGED <<OS_TYPE, detectVars, filterVars, ensureVars, diffVars, fsVars, os_type,
                   tool_data, system_dependencies, post_j, pre_dirs,
                   installed_tools_names, succeeded,
                   menuVars>>

\* tool_manager.py:60-80: with a URL and a path, the parent directory is made
\* and the tool pulled or cloned; a checkout may or may not hold a manifest.
Fetch ==
    /\ pc = "deps"
    /\ dep_i > Len(system_dependencies)
    /\ LET repo_url == tool_data.github_url
           tool_full_path == tool_full_path_of(tool_data)
           made == dirs \cup MkdirParents(Parent(tool_full_path))
           exists == Exists(tool_full_path, made, files)
           req_file == tool_full_path \o <<"requirements.txt">>
       IN  IF Truthy(repo_url) /\ tool_full_path # <<>>
           THEN \E ok \in BOOLEAN :
                  /\ cmds' = Append(cmds, Proc(fetch_argv(repo_url.s, tool_full_path, exists),
                                               <<>>, ok))
                  /\ pc' = after_fetch(ok)
                  /\ IF ok
                     THEN /\ dirs' = made \cup {tool_full_path, tool_full_path \o <<".git">>}
                          /\ files' \in {files \ {req_file}, files \cup {req_file}}
                          /\ UNCHANGED <<ret, exit_line>>
                     ELSE /\ dirs' = made
                          /\ files' = files
                          /\ IF after_fetch(ok) = "returned"
                             THEN ret' = "False" /\ exit_line' = (IF exists THEN 68 ELSE 74)
                             ELSE UNCHANGED <<ret, exit_line>>
           ELSE /\ pc' = "post_check"
                /\ UNCHANGED <<cmds, ret, exit_line, fsVars>>
    /\ UNCHANGED <<OS_TYPE, detectVars, filterVars, ensureVars, diffVars, os_type, tool_data,
                   system_dependencies, dep_i, post_j, ensured, pre_dirs,
                   installed_tools_names, succeeded,
                   menuVars>>

\* tool_manager.py:84-86, 98-100: the post-install commands are entered or skipped.
PostCheck ==
    /\ pc = "post_check"
    /\ pc' = IF post_install_applies(tool_data, dirs, files) THEN "post" ELSE "reqs"
    /\ UNCHANGED <<OS_TYPE, detectVars, filterVars, ensureVars, diffVars, callVars, fsVars,
                   tool_data, system_dependencies, dep_i, post_j, ensured, exit_line,
                   pre_dirs, installed_tools_names, succeeded,
                   menuVars>>

\* tool_manager.py:89-97: one post-install command runs in the tool's directory.
PostCommand ==
    /\ pc = "post"
    /\ LET tool_full_path == tool_full_path_of(tool_data)
           commands == tool_data.post_install_commands
       IN  IF post_j <= Len(commands)
           THEN \E ok \in BOOLEAN :
                  /\ cmds' = Append(cmds, Proc(ReplacePlaceholder(commands[post_j],
                                                                  tool_full_path),
                                               tool_full_path, ok))
                  /\ IF ok
                     THEN /\ post_j' = post_j + 1
                          /\ UNCHANGED <<pc, ret, exit_line>>
                     ELSE /\ pc' = "returned"
                          /\ ret' = "False"
                          /\ exit_line' = 97
                          /\ UNCHANGED post_j
           ELSE /\ pc' = "reqs"
                /\ UNCHANGED <<cmds, ret, exit_line, post_j>>
    /\ UNCHANGED <<OS_TYPE, detectVars, filterVars, ensureVars, diffVars, fsVars, os_type,
                   tool_data, system_dependencies, dep_i, ensured, pre_dirs,
                   installed_tools_names, succeeded,
                   menuVars>>

\* tool_manager.py:103-111: the requirements of a tool on disk are handled, and
\* whatever came of it install_tool returns True.
Requirements ==
    /\ pc = "reqs"
    /\ LET tool_full_path == tool_full_path_of(tool_data)
       IN  IF tool_full_path # <<>> /\ Exists(tool_full_path, dirs, files)
           THEN \E path \in SUBSET {<<"pip3">>, <<"pip">>}, pip_ok \in BOOLEAN :
                  LET r == install_python_requirements(tool_full_path, dirs, files,
                                                       path, pip_ok)
                  IN  /\ cmds' = cmds \o r.cmds
                      /\ ret' = after_requirements(r.ret)
           ELSE /\ cmds' = cmds
                /\ ret' = "True"
    /\ exit_line' = 111
    /\ pc' = "returned"
    /\ UNCHANGED <<OS_TYPE, detectVars, filterVars, ensureVars, diffVars, fsVars, os_type,
                   tool_data, system_dependencies, dep_i, post_j, ensured, pre_dirs,
                   installed_tools_names, succeeded,
                   menuVars>>

\* uht.py:149: the installed names are scanned again after the call; the scan
\* is the call followed now, and it runs no process.
Scan ==
    /\ pc = "returned"
    /\ installed_tools_names' = rescan(installed_tools_names, dirs, files)
    /\ pc' = "scanned"
    /\ cmds' = <<>>
    /\ ensured' = <<>>
    /\ UNCHANGED <<OS_TYPE, detectVars, filterVars, ensureVars, diffVars, os_type, ret, fsVars,
                   tool_data, system_dependencies, dep_i, post_j, exit_line,
                   pre_dirs, succeeded,
                   menuVars>>

\* uht.py:150, 140, 147-148: Enter is pressed, the options of the same tool
\* are shown again and "1" is chosen again: install_tool is called once more
\* with the same selected_tool_data and OS_TYPE.  installed_tools_names keeps
\* the value of the last scan until the next one.
InstallAgain ==
    /\ pc = "scanned"
    /\ succeeded' = (succeeded \/ ret = "True")
    /\ system_dependencies' = resolve_dependencies(tool_data, os_type)
    /\ dep_i' = 1
    /\ post_j' = 1
    /\ ensured' = <<>>
    /\ cmds' = <<>>
    /\ ret' = "none"
    /\ exit_line' = 0
    /\ pre_dirs' = dirs
    /\ pc' = "deps"
    /\ UNCHANGED <<OS_TYPE, detectVars, filterVars, ensureVars, diffVars, fsVars,
                   os_type, tool_data, installed_tools_names,
                   menuVars>>

\* uht.py:150, 142-143: Enter is pressed and the options loop is left; another
\* tool may be selected.
Continue ==
    /\ pc = "scanned"
    /\ pc' = "idle"
    /\ tool_data' = NoTool
    /\ system_dependencies' = <<>>
    /\ dep_i' = 1
    /\ post_j' = 1
    /\ ensured' = <<>>
    /\ exit_line' = 0
    /\ pre_dirs' = {}
    /\ installed_tools_names' = {}
    /\ succeeded' = FALSE
    /\ os_type' = "none"
    /\ cmds' = <<>>
    /\ ret' = "none"
    /\ UNCHANGED <<OS_TYPE, detectVars, filterVars, ensureVars, diffVars, fsVars,
                   menuVars>>

Next ==
    \/ CallInstallTool
    \/ EnsureDep
    \/ Fetch
    \/ PostCheck
    \/ PostCommand
    \/ Requirements
    \/ Scan
    \/ InstallAgain
    \/ Continue

Spec == InitInstall /\ [][Next]_vars

(***************************************************************************)
(* Properties of install_tool                                              *)
(***************************************************************************)
\* install_tool has been called and the caller has not yet scanned.
InCall == pc \in {"deps", "post_check", "post", "reqs", "returned"}

\* The dependency step is over and did not return False.
PastDeps == pc \in {"post_check", "post", "reqs"} \/ (pc = "returned" /\ exit_line # 54)

\* The fetch step is over and did not return False.
PastFetch ==
    pc \in {"post_check", "post", "reqs"} \/ (pc = "returned" /\ exit_line \in {97, 111})

HasSource == Truthy(tool_data.github_url) /\ Truthy(tool_data.install_path)

IsGit(c) == c.argv[1] = "git"

IsClone(c) == c.argv[1] = "git" /\ c.argv[2] = "clone"

IsPullAt(c, path_) == c.argv = <<"git", "-C">> \o path_ \o <<"pull">>

IsPip(c) == c.argv[1] \in {"pip3", "pip"}

IsPost(c) ==
    c.argv[1] \notin {"which", "git", "pip3", "pip", "pkg", "sudo", "choco", "winget", "brew"}

PostRun == SelectSeq(cmds, IsPost)

\* C1: called while the install path exists, install_tool of a tool with a URL
\* and a path never clones, and its fetch step is a pull at that path.
C1_PullNeverClone ==
    (InCall /\ HasSource /\ tool_full_path_of(tool_data) \in pre_dirs) =>
        /\ \A i \in 1..Len(cmds) : ~IsClone(cmds[i])
        /\ PastDeps =>
             \E i \in 1..Len(cmds) : IsPullAt(cmds[i], tool_full_path_of(tool_data))

\* A tool already on disk has been installed again: pulled, and True returned.
C1_Witness ==
    /\ pc = "returned"
    /\ ret = "True"
    /\ HasSource
    /\ tool_full_path_of(tool_data) \in pre_dirs
    /\ \E i \in 1..Len(cmds) : IsPullAt(cmds[i], tool_full_path_of(tool_data)) /\ cmds[i].ok

\* C2: when install_tool of a tool with a URL and a path has returned True, the
\* scan of the installation root that follows holds the tool's name.
C2_SuccessIsScanned ==
    (pc = "scanned" /\ ret = "True" /\ HasSource) =>
        tool_data.name \in installed_tools_names

\* The dependency list the tool declares for the os_type: its entry, or the
\* default entry when it has none.
DeclaredDependencies ==
    IF "dependencies" \notin DOMAIN tool_data THEN <<>>
    ELSE IF os_type \in DOMAIN tool_data.dependencies
         THEN tool_data.dependencies[os_type]
    ELSE IF "default" \in DOMAIN tool_data.dependencies
         THEN tool_data.dependencies["default"]
    ELSE <<>>

DependencyFailed == ensured # <<>> /\ ~ensured[Len(ensured)][2]

\* C7: the dependencies ensured are those declared for the os_type (else the
\* default ones), in declared order; the first one that fails ends the call
\* with False, with no later dependency ensured and no clone, pull,
\* post-install command or requirements install.
C7_DependenciesInOrderAbortOnFailure ==
    InCall =>
        /\ Len(ensured) <= Len(DeclaredDependencies)
        /\ \A k \in 1..Len(ensured) : ensured[k][1] = DeclaredDependencies[k]
        /\ \A k \in 1..(Len(ensured) - 1) : ensured[k][2]
        /\ DependencyFailed =>
             /\ pc = "returned" /\ ret = "False"
             /\ \A i \in 1..Len(cmds) :
                  ~IsGit(cmds[i]) /\ ~IsPost(cmds[i]) /\ ~IsPip(cmds[i])
        /\ PastDeps =>
             /\ Len(ensured) = Len(DeclaredDependencies)
             /\ ~DependencyFailed

\* On a Debian host the OS-specific list [git] was taken although a default
\* list exists, and git could not be installed: a tool with a URL, a path and
\* post-install commands returned False.
C7_Witness ==
    /\ pc = "returned"
    /\ ret = "False"
    /\ os_type = "debian_based_linux"
    /\ HasSource
    /\ "dependencies" \in DOMAIN tool_data
    /\ tool_data.dependencies =
         [debian_based_linux |-> <<<<"git">>>>, default |-> <<<<"java">>>>]
    /\ "post_install_commands" \in DOMAIN tool_data
    /\ tool_data.post_install_commands # <<>>
    /\ ensured = <<<<<<"git">>, FALSE>>>>

\* C8: a clone or pull that fails ends the call with False, and nothing runs
\* after it.
C8_FetchFailureAborts ==
    InCall =>
        \A i \in 1..Len(cmds) :
            (IsGit(cmds[i]) /\ ~cmds[i].ok) =>
                /\ pc = "returned"
                /\ ret = "False"
                /\ i = Len(cmds)

\* The clone of a tool with post-install commands has failed.
C8_Witness ==
    /\ pc = "returned"
    /\ ret = "False"
    /\ cmds # <<>>
    /\ IsClone(cmds[Len(cmds)])
    /\ ~cmds[Len(cmds)].ok
    /\ "post_install_commands" \in DOMAIN tool_data
    /\ tool_data.post_install_commands # <<>>

DeclaredPost ==
    IF "post_install_commands" \in DOMAIN tool_data
    THEN tool_data.post_install_commands
    ELSE <<>>

PathOnDisk ==
    Truthy(tool_data.install_path) /\ tool_data.install_path.s \in dirs \cup files

\* C9: post-install commands run only for a non-empty list and a path on disk;
\* they run in declared order; the first that fails ends the call with False
\* and no later one runs; with the path not on disk they are skipped, and the
\* call goes on to return True.
C9_PostInstallInOrderAbortOnFailure ==
    InCall =>
        /\ PostRun # <<>> => (DeclaredPost # <<>> /\ PathOnDisk)
        /\ Len(PostRun) <= Len(DeclaredPost)
        /\ \A k \in 1..Len(PostRun) :
             PostRun[k].argv =
                 ReplacePlaceholder(DeclaredPost[k], tool_full_path_of(tool_data))
        /\ \A k \in 1..(Len(PostRun) - 1) : PostRun[k].ok
        /\ (PostRun # <<>> /\ ~PostRun[Len(PostRun)].ok) =>
             /\ pc = "returned" /\ ret = "False"
             /\ cmds[Len(cmds)] = PostRun[Len(PostRun)]
        /\ (DeclaredPost # <<>> /\ PathOnDisk /\ (pc = "reqs" \/ exit_line = 111)) =>
             (Len(PostRun) = Len(DeclaredPost) /\ PostRun[Len(PostRun)].ok)
        /\ (DeclaredPost # <<>> /\ ~PathOnDisk /\ PastFetch) =>
             /\ PostRun = <<>>
             /\ pc \in {"post_check", "reqs", "returned"}
             /\ pc = "returned" => ret = "True"

\* The first of two post-install commands has run and the second has failed.
C9_Witness ==
    /\ pc = "returned"
    /\ ret = "False"
    /\ Len(DeclaredPost) = 2
    /\ Len(PostRun) = 2
    /\ PostRun[1].ok /\ ~PostRun[2].ok
    /\ PostRun[2].cwd = tool_full_path_of(tool_data)

\* The manifest step failed: the installer command failed, or neither pip3 nor
\* pip was found for a manifest on disk.
ManifestStepFailed ==
    \E i \in 1..Len(cmds) :
        \/ IsPip(cmds[i]) /\ ~cmds[i].ok
        \/ cmds[i].argv = <<"which", "pip">> /\ ~cmds[i].ok

\* C10: install_tool returns True only if the manifest step, where a manifest
\* is on disk, succeeded too.
C10_ManifestFailureFails ==
    (pc = "returned" /\ ManifestStepFailed) => ret = "False"

\* The directory the framework is started in; the relative paths of the
\* catalog and of the settings are taken from it.
WorkingDirectory == <<"/", "opt", "uht">>

IsAbsolute(path_) == path_ # <<>> /\ Head(path_) = "/"

\* The absolute path a path designates: itself, or the working directory
\* followed by it.
Resolve(path_) == IF IsAbsolute(path_) THEN path_ ELSE WorkingDirectory \o path_

\* C22: every post-install command run has the tool's installation directory
\* as its working directory and is its template with each placeholder
\* replaced by the absolute path of the install path, relative or not in the
\* catalog.
C22_PlaceholderAbsolute ==
    InCall =>
        \A k \in 1..Len(PostRun) :
            /\ Resolve(PostRun[k].cwd) = Resolve(tool_full_path_of(tool_data))
            /\ PostRun[k].argv =
                   ReplacePlaceholder(tool_data.post_install_commands[k],
                                      Resolve(tool_full_path_of(tool_data)))

\* C14: with os_type "unsupported" install_tool runs no package-manager
\* command, no clone or pull and no post-install command, whatever the tool.
C14_UnsupportedRefusesAutomaticAction ==
    (InCall /\ os_type = "unsupported") =>
        \A i \in 1..Len(cmds) :
            ~IsPackageManagerCommand(cmds[i]) /\ ~IsGit(cmds[i]) /\ ~IsPost(cmds[i])

\* Every external process of the call followed exited with status 0.
AllCommandsSucceeded == \A i \in 1..Len(cmds) : cmds[i].ok

\* C11: once install_tool has returned True for the selected tool, every later
\* call for it in which all external commands succeed returns True, and the
\* scan of the installation root is what it was after the call before.
C11_RerunConverges ==
    (pc = "returned" /\ succeeded /\ AllCommandsSucceeded) =>
        /\ ret = "True"
        /\ get_installed_tools_names(TOOLS_DIR, dirs, files) = installed_tools_names

\* A tool installed before has been installed again: its dependency was found,
\* it was pulled, its two post-install commands ran, and True was returned.
C11_Witness ==
    /\ pc = "returned"
    /\ succeeded
    /\ AllCommandsSucceeded
    /\ HasSource
    /\ ensured # <<>>
    /\ \E i \in 1..Len(cmds) : IsPullAt(cmds[i], tool_full_path_of(tool_data))
    /\ Len(PostRun) = 2
    /\ ret = "True"
    /\ installed_tools_names = {"sqlmap"}

(***************************************************************************)
(* lib/update_checker.py: check_for_tool_updates_and_new_tools             *)
(*                                                                         *)
(* A catalog is the sequence of its categories in file order, each a       *)
(* record [category, tools]; a flattened catalog (a dict keyed by name) is *)
(* the sequence of its values in insertion order.                          *)
(***************************************************************************)
\* d[tool['name']] = tool
DictPut(flat, tool) ==
    IF \E k \in 1..Len(flat) : flat[k].name = tool.name
    THEN [k \in 1..Len(flat) |-> IF flat[k].name = tool.name THEN tool ELSE flat[k]]
    ELSE Append(flat, tool)

RECURSIVE PutAll(_, _)
PutAll(flat, tools) ==
    IF tools = <<>> THEN flat ELSE PutAll(DictPut(flat, Head(tools)), Tail(tools))

\* update_checker.py:58-61 and 63-66
RECURSIVE flat_tools_from(_, _)
flat_tools_from(catalog, flat) ==
    IF catalog = <<>> THEN flat
    ELSE flat_tools_from(Tail(catalog), PutAll(flat, Head(catalog).tools))

flat_tools(catalog) == flat_tools_from(catalog, <<>>)

FlatNames(flat) == {flat[k].name : k \in 1..Len(flat)}

FlatGet(flat, name) == flat[CHOOSE k \in 1..Len(flat) : flat[k].name = name]

\* A variant of the test for a new tool that does not look at install_path.
is_new_tool_without_path(tool, local_flat, installed) ==
    /\ Truthy(Get(tool, "github_url", Null))
    /\ tool.name \notin installed
    /\ tool.name \notin FlatNames(local_flat)

\* update_checker.py:73-75
is_new_tool(tool, local_flat, installed) ==
    /\ Truthy(Get(tool, "github_url", Null))
    /\ Truthy(Get(tool, "install_path", Null))
    /\ tool.name \notin installed
    /\ tool.name \notin FlatNames(local_flat)

\* update_checker.py:69-76
find_new_tools(local, remote, installed) ==
    LET local_flat == flat_tools(local)
    IN  SelectSeq(flat_tools(remote), LAMBDA t : is_new_tool(t, local_flat, installed))

\* What git reports for one working copy: fetch fails, status fails, or status
\* prints that the branch is behind, has diverged, or is up to date.
GitOutcomes == {"fetch_error", "status_error", "behind", "diverged", "up_to_date"}

\* update_checker.py:81-114 for one installed name: the processes run, the
\* tools found updatable, and the repositories whose FETCH_HEAD git has written.
check_one(tool_name, local_flat, ds, outcome) ==
    LET nothing == [cmds |-> <<>>, update |-> <<>>, fetched |-> {}]
        local_tool_data == FlatGet(local_flat, tool_name)
        tool_path_str == Get(local_tool_data, "install_path", Null)
        repo_url == Get(local_tool_data, "github_url", Null)
        tool_path == tool_path_str.s
        fetch == Proc(<<"git", "-C">> \o tool_path \o <<"fetch", "--all">>, <<>>,
                      outcome # "fetch_error")
        status == Proc(<<"git", "-C">> \o tool_path \o <<"status", "-uno">>, <<>>,
                       outcome # "status_error")
    IN  IF tool_name \notin FlatNames(local_flat) THEN nothing
        ELSE IF ~(Truthy(tool_path_str) /\ Truthy(repo_url)) THEN nothing
        ELSE IF ~(tool_path \in ds /\ (tool_path \o <<".git">>) \in ds) THEN nothing
        ELSE IF outcome = "fetch_error"
             THEN [cmds |-> <<fetch>>, update |-> <<>>, fetched |-> {}]
        ELSE IF outcome = "status_error"
             THEN [cmds |-> <<fetch, status>>, update |-> <<>>, fetched |-> {tool_path}]
        ELSE [cmds |-> <<fetch, status>>,
              update |-> IF outcome \in {"behind", "diverged"}
                         THEN <<local_tool_data>> ELSE <<>>,
              fetched |-> {tool_path}]

\* A variant of the loop in which the first git error ends the scan.
RECURSIVE check_installed_until_error(_, _, _, _)
check_installed_until_error(order, local_flat, ds, outcome) ==
    IF order = <<>> THEN [cmds |-> <<>>, update |-> <<>>, fetched |-> {}]
    ELSE LET one == check_one(Head(order), local_flat, ds, outcome[Head(order)])
             failed == \E i \in 1..Len(one.cmds) : ~one.cmds[i].ok
             rest == IF failed THEN [cmds |-> <<>>, update |-> <<>>, fetched |-> {}]
                     ELSE check_installed_until_error(Tail(order), local_flat, ds,
                                                      outcome)
         IN  [cmds |-> one.cmds \o rest.cmds,
              update |-> one.update \o rest.update,
              fetched |-> one.fetched \cup rest.fetched]

\* update_checker.py:80-114: the loop over the installed names, taken in order.
RECURSIVE check_installed(_, _, _, _)
check_installed(order, local_flat, ds, outcome) ==
    IF order = <<>> THEN [cmds |-> <<>>, update |-> <<>>, fetched |-> {}]
    ELSE LET one == check_one(Head(order), local_flat, ds, outcome[Head(order)])
             rest == check_installed(Tail(order), local_flat, ds, outcome)
         IN  [cmds |-> one.cmds \o rest.cmds,
              update |-> one.update \o rest.update,
              fetched |-> one.fetched \cup rest.fetched]

\* The sequences that hold each element of S once: the orders a set is iterated in.
Orders(S) ==
    {q \in [1..Cardinality(S) -> S] : \A i, j \in 1..Cardinality(S) : q[i] = q[j] => i = j}

DiffNames == {"sqlmap", "nmap"}

DiffURL == Str(<<"https://example/repo">>)

\* The remote entries with name n: each field null, empty or set, or the
\* fields missing altogether.
RemoteEntries(n) ==
    [name : {n}, github_url : {Null, Str(<<>>), DiffURL},
     install_path : {Null, Str(<<"tools", n>>)}]
    \cup {[name |-> n]}

\* The local entries with name n: a manual entry or an installable one.
LocalEntries(n) ==
    [name : {n}, github_url : {Null}, install_path : {Null}]
    \cup [name : {n}, github_url : {DiffURL}, install_path : {Str(<<"tools", n>>)}]

\* A catalog of two categories; an entry <<category, tool>> stands in its
\* category, an entry <<"absent", _>> in none.
Absent == <<"absent", [name |-> "none"]>>

TwoCategories(a, b) ==
    LET in(cat) == (IF a[1] = cat THEN <<a[2]>> ELSE <<>>)
                   \o (IF b[1] = cat THEN <<b[2]>> ELSE <<>>)
    IN  <<[category |-> "web", tools |-> in("web")],
          [category |-> "network", tools |-> in("network")]>>

\* The remote catalogs: the empty object, and those with sqlmap or not under
\* web and nmap or not under network (names are unique across a catalog).
RemoteCatalogs ==
    {<<>>}
    \cup {TwoCategories(a, b) : a \in {Absent} \cup ({"web"} \X RemoteEntries("sqlmap")),
                                b \in {Absent} \cup ({"network"} \X RemoteEntries("nmap"))}

\* The local catalogs: sqlmap or not, nmap or not, both under web.
LocalCatalogs ==
    {TwoCategories(a, b) : a \in {Absent} \cup ({"web"} \X LocalEntries("sqlmap")),
                           b \in {Absent} \cup ({"web"} \X LocalEntries("nmap"))}

\* The installation root: empty, sqlmap as a plain directory, sqlmap as a
\* working copy, or both tools as working copies.
DiskStates ==
    {{},
     {<<"tools">>, <<"tools", "sqlmap">>},
     {<<"tools">>, <<"tools", "sqlmap">>, <<"tools", "sqlmap", ".git">>},
     {<<"tools">>, <<"tools", "sqlmap">>, <<"tools", "sqlmap", ".git">>,
      <<"tools", "nmap">>, <<"tools", "nmap", ".git">>}}

InitDiff ==
    /\ local_tools_data \in LocalCatalogs
    /\ remote_tools_data \in RemoteCatalogs
    /\ installed_names \in SUBSET DiffNames
    /\ dirs \in DiskStates
    /\ files = {}
    /\ new_tools = <<>>
    /\ tools_to_update = <<>>
    /\ diffed = FALSE
    /\ scan_order = <<>>
    /\ git_outcome = <<>>
    /\ pc = "idle"
    /\ tool_data = NoTool
    /\ system_dependencies = <<>>
    /\ dep_i = 1
    /\ post_j = 1
    /\ ensured = <<>>
    /\ exit_line = 0
    /\ pre_dirs = {}
    /\ installed_tools_names = {}
    /\ succeeded = FALSE
    /\ OS_TYPE = "undetected"
    /\ NoDetect /\ NoFilter /\ NoEnsure /\ NoCall /\ NoMenu

\* One call check_for_tool_updates_and_new_tools(local, remote, installed), as
\* uht.py:189 makes it.  An empty remote catalog returns at once; otherwise the
\* installed names are gone through in some order, and git fetch writes
\* FETCH_HEAD in the working copies it succeeds on.
CheckUpdates ==
    /\ ~diffed
    /\ diffed' = TRUE
    /\ IF remote_tools_data = <<>>
       THEN /\ new_tools' = <<>>
            /\ tools_to_update' = <<>>
            /\ UNCHANGED <<cmds, files, scan_order, git_outcome>>
       ELSE /\ new_tools' = find_new_tools(local_tools_data, remote_tools_data,
                                           installed_names)
            /\ \E order \in Orders(installed_names),
                  outcome \in [installed_names -> GitOutcomes] :
                 LET r == check_installed(order, flat_tools(local_tools_data), dirs,
                                          outcome)
                 IN  /\ tools_to_update' = r.update
                     /\ scan_order' = order
                     /\ git_outcome' = outcome
                     /\ cmds' = r.cmds
                     /\ files' = files \cup {d \o <<".git", "FETCH_HEAD">> : d \in r.fetched}
    /\ UNCHANGED <<OS_TYPE, detectVars, filterVars, ensureVars, installVars, os_type,
                   ret, dirs, local_tools_data, remote_tools_data, installed_names,
                   menuVars>>

NextDiff == CheckUpdates

SpecDiff == InitDiff /\ [][NextDiff]_vars

\* C15: the update check leaves every directory and file of the local tools as
\* it was, working tree and .git alike, and runs no clone or pull.
C15_UpdateCheckReadOnly ==
    [][(~diffed /\ diffed') =>
          /\ dirs' = dirs
          /\ files' = files
          /\ \A i \in 1..Len(cmds') :
                ~IsClone(cmds'[i]) /\ ~InList("pull", cmds'[i].argv)]_vars

\* Every tool object of the remote catalog.
RemoteTools ==
    UNION {{remote_tools_data[c].tools[i] : i \in 1..Len(remote_tools_data[c].tools)} :
             c \in 1..Len(remote_tools_data)}

LocalNames ==
    UNION {{local_tools_data[c].tools[i].name : i \in 1..Len(local_tools_data[c].tools)} :
             c \in 1..Len(local_tools_data)}

\* The tool declares the field with a value that is neither null nor empty.
Declares(tool, field) ==
    field \in DOMAIN tool /\ ~tool[field].null /\ tool[field].s # <<>>

\* The git processes the scan ran in the working copy of the installed name n.
GitRunFor(n) ==
    SelectSeq(cmds, LAMBDA c : c.argv[1] = "git" /\ InList(n, c.argv))

\* The installed names for which git fetch or git status exited with an error.
GitFailedNames ==
    {n \in installed_names : \E i \in 1..Len(GitRunFor(n)) : ~GitRunFor(n)[i].ok}

\* The installed names the scan has to ask git about: managed by the local
\* catalog, with a source URL and an install path that is a working copy.
Examinable(n) ==
    LET local_flat == flat_tools(local_tools_data)
    IN  /\ n \in FlatNames(local_flat)
        /\ Declares(FlatGet(local_flat, n), "install_path")
        /\ Declares(FlatGet(local_flat, n), "github_url")
        /\ FlatGet(local_flat, n).install_path.s \in dirs
        /\ (FlatGet(local_flat, n).install_path.s \o <<".git">>) \in dirs

\* The entries of a result that are not about the names in S.
Without(tools, S) == SelectSeq(tools, LAMBDA t : t.name \notin S)

\* C21: a git error for one installed tool does not end the update scan: the
\* failing tool is not reported as updatable, every other installed tool that
\* can be examined has both git commands run for it and is classified as in
\* the scan where git answers without error for the failing tools, and the
\* pair (new_tools, tools_to_update) is returned.
C21_GitErrorSkipped ==
    (diffed /\ remote_tools_data # <<>> /\ GitFailedNames # {}) =>
        /\ \A k \in 1..Len(tools_to_update) :
              tools_to_update[k].name \notin GitFailedNames
        /\ \A n \in installed_names \ GitFailedNames :
              Examinable(n) =>
                  /\ Len(GitRunFor(n)) = 2
                  /\ (n \in {tools_to_update[k].name : k \in 1..Len(tools_to_update)})
                        <=> (git_outcome[n] \in {"behind", "diverged"})
        /\ \A cured \in [GitFailedNames -> {"behind", "diverged", "up_to_date"}] :
              LET answered == [n \in installed_names |->
                                 IF n \in GitFailedNames THEN cured[n]
                                 ELSE git_outcome[n]]
              IN  Without(tools_to_update, GitFailedNames)
                  = Without(check_installed(scan_order, flat_tools(local_tools_data),
                                            dirs, answered).update,
                            GitFailedNames)
        /\ new_tools = find_new_tools(local_tools_data, remote_tools_data,
                                      installed_names)

\* git fetch failed for sqlmap, the first name of the scan; nmap, examined
\* after it, was found behind its remote and is the only tool to update.
C21_Witness ==
    /\ diffed
    /\ remote_tools_data # <<>>
    /\ scan_order = <<"sqlmap", "nmap">>
    /\ GitFailedNames = {"sqlmap"}
    /\ git_outcome["nmap"] = "behind"
    /\ Len(cmds) = 3
    /\ Len(tools_to_update) = 1
    /\ tools_to_update[1].name = "nmap"

\* C4: a remote tool is reported as new exactly when its name is in neither
\* the local catalog nor the installed names and it declares both a source URL
\* and an install path.
C4_NewToolsExactly ==
    diffed =>
        /\ \A t \in RemoteTools :
             InList(t, new_tools) <=>
                 /\ t.name \notin LocalNames
                 /\ t.name \notin installed_names
                 /\ Declares(t, "github_url")
                 /\ Declares(t, "install_path")
        /\ \A k \in 1..Len(new_tools) : new_tools[k] \in RemoteTools

\* sqlmap, with URL and path, unknown locally and not installed, is reported;
\* nmap, unknown locally too but with a URL only, is not.
C4_Witness ==
    /\ diffed
    /\ LocalNames = {}
    /\ installed_names = {}
    /\ new_tools = <<[name |-> "sqlmap", github_url |-> DiffURL,
                      install_path |-> Str(<<"tools", "sqlmap">>)]>>
    /\ [name |-> "nmap", github_url |-> DiffURL, install_path |-> Null] \in RemoteTools

(***************************************************************************)
(* The menu session: uht.py main, lib/menu_handler.py display_tool_menu,   *)
(* lib/update_checker.py get_remote_tools_data, lib/tool_manager.py        *)
(* run_tool.                                                               *)
(*                                                                         *)
(* The session waits at one of three prompts (menu = "main", "tools",      *)
(* "options"), has left through sys.exit or the end of main ("exited"), or *)
(* has been ended by an exception nothing catches ("crashed").  A choice   *)
(* the code answers with "Invalid choice" changes nothing and is a         *)
(* stuttering step.                                                        *)
(***************************************************************************)
MaxUpdateChecks == 2

\* How the request of update_checker.py:26-28 can end, and "no_url" for an
\* empty REMOTE_TOOLS_JSON_URL (line 19).
FetchOutcomes ==
    {"ok", "no_url", "timeout", "connection_error", "http_error", "parse_error"}

\* A variant of get_remote_tools_data without the handler for Timeout.
get_remote_tools_data_timeout_uncaught(outcome, doc) ==
    [raised |-> outcome = "timeout",
     none |-> outcome # "ok",
     value |-> IF outcome = "ok" THEN doc ELSE <<>>]

\* update_checker.py:17-44: the parsed document when the request and the
\* parse succeed, None in every other case; no exception leaves the function.
get_remote_tools_data(outcome, doc) ==
    [raised |-> FALSE,
     none |-> outcome # "ok",
     value |-> IF outcome = "ok" THEN doc ELSE <<>>]

\* menu_handler.py:43-70: what a call of display_tool_menu comes to.  An empty
\* list returns None (line 51).  Line 55 evaluates Path(...), a name the module
\* does not import, for every tool with a non-empty install_path: NameError.
\* Otherwise the choice typed is returned.
display_tool_menu(tools_list) ==
    IF tools_list = <<>> THEN "None"
    ELSE IF \E i \in 1..Len(tools_list) : Truthy(tools_list[i].install_path)
    THEN "NameError"
    ELSE "choice"

\* tool_manager.py:113-163: run_tool(tool_data, tools_base_dir), where ok says
\* how the tool's command ends: the value returned, the line that returns it
\* and the process run.  run_command is a string or an object keyed by OS type.
run_tool(tool_data_, current_os_type, ds, fs, ok) ==
    LET run_command_raw == tool_data_.run_command
        is_dict == "null" \notin DOMAIN run_command_raw
        run_command == IF is_dict
                       THEN Get(run_command_raw, current_os_type,
                                Get(run_command_raw, "default", Null))
                       ELSE run_command_raw
        tool_full_path == tool_full_path_of(tool_data_)
    IN  IF is_dict /\ run_command.null
        THEN [ret |-> FALSE, line |-> 129, cmds |-> <<>>]
        ELSE IF tool_full_path = <<>>
        THEN [ret |-> TRUE, line |-> 141, cmds |-> <<>>]
        ELSE IF ~Exists(tool_full_path, ds, fs)
        THEN [ret |-> FALSE, line |-> 145, cmds |-> <<>>]
        ELSE [ret |-> ok, line |-> (IF ok THEN 159 ELSE 157),
              cmds |-> <<Proc(run_command.s, tool_full_path, ok)>>]

\* A variant in which a failed installation ends the session.
next_after_install_exit_on_failure(result) ==
    IF result = "False" THEN "exited" ELSE "options"

\* uht.py:148-150, 165-169: the value install_tool returns is not looked at;
\* after Enter the options of the tool are shown again.
next_after_install(result) == "options"

MenuURL == Str(<<"https://example/repo">>)

\* A manual tool with a dependency, a tool with a URL and no install path, a
\* tool with both, and a tool hidden everywhere but on termux.
OsintTool ==
    [name |-> "osint", github_url |-> Null, install_path |-> Null,
     dependencies |-> [default |-> <<<<"git">>>>],
     run_command |-> Str(<<"https://example/osint">>)]

SqlmapTool ==
    [name |-> "sqlmap", github_url |-> MenuURL, install_path |-> Null,
     os_compat |-> <<"any">>,
     run_command |-> [debian_based_linux |-> Str(<<"python3", "sqlmap.py">>)]]

NmapTool ==
    [name |-> "nmap", github_url |-> MenuURL,
     install_path |-> Str(<<"tools", "nmap">>),
     run_command |-> Str(<<"nmap">>)]

TermuxTool ==
    [name |-> "hydra", github_url |-> Null, install_path |-> Null,
     os_compat |-> <<"termux">>, skip_if_os_not_supported |-> TRUE,
     run_command |-> Str(<<"hydra">>)]

\* The catalogs config/tools.json may hold, before and after a self-update.
MenuCatalogs ==
    {<<[category |-> "osint", tools |-> <<OsintTool, SqlmapTool>>],
       [category |-> "network", tools |-> <<NmapTool>>],
       [category |-> "mobile", tools |-> <<TermuxTool>>]>>,
     <<[category |-> "osint", tools |-> <<OsintTool>>]>>}

\* The documents the remote URL may serve: the empty object, and a catalog
\* with a tool the local catalogs do not know.
MenuRemotes ==
    {<<>>,
     <<[category |-> "web",
        tools |-> <<[name |-> "nikto", github_url |-> MenuURL,
                     install_path |-> Str(<<"tools", "nikto">>)]>>]>>}

\* The installation root when the session starts: absent, or holding a
\* directory sqlmap and a working copy nmap.
MenuDisks ==
    {{},
     {<<"tools">>, <<"tools", "sqlmap">>, <<"tools", "nmap">>,
      <<"tools", "nmap", ".git">>}}

\* A Debian host and a host of no known platform.
MenuHosts ==
    {[android_root |-> FALSE, termux_dir |-> FALSE, system |-> "Linux",
      os_release |-> [exists |-> TRUE, content |-> {"ID=debian"}]],
     [android_root |-> FALSE, termux_dir |-> FALSE, system |-> "FreeBSD",
      os_release |-> [exists |-> FALSE, content |-> {}]]}

\* A file a self-update may bring into the installation root.
PulledFile == <<"tools", "rockyou.txt">>

InitMenu ==
    /\ host \in MenuHosts
    /\ OS_TYPE = get_os_type(host)
    /\ detected = {}
    /\ calls = 0
    /\ TOOLS_DATA \in MenuCatalogs
    /\ menu = "main"
    /\ selected_tool_data = NoTool
    /\ via = "none"
    /\ update_checks = 0
    /\ fetch_outcome = "none"
    /\ dirs \in MenuDisks
    /\ files = {}
    /\ pc = "idle"
    /\ tool_data = NoTool
    /\ system_dependencies = <<>>
    /\ dep_i = 1
    /\ post_j = 1
    /\ ensured = <<>>
    /\ exit_line = 0
    /\ pre_dirs = {}
    /\ installed_tools_names = {}
    /\ succeeded = FALSE
    /\ NoFilter /\ NoEnsure /\ NoCall /\ NoDiff

\* uht.py:94-96: "0" in the main menu ends main.
MainExit ==
    /\ menu = "main"
    /\ menu' = "exited"
    /\ UNCHANGED <<OS_TYPE, detectVars, filterVars, ensureVars, callVars, fsVars,
                   installVars, diffVars, TOOLS_DATA, selected_tool_data, via,
                   update_checks, fetch_outcome>>

\* uht.py:97-128: a category is chosen, its tools are filtered, the installed
\* names are scanned and display_tool_menu is called for the first time.
SelectCategory ==
    /\ menu = "main"
    /\ \E i \in 1..Len(TOOLS_DATA) :
         LET shown == compatible_from(TOOLS_DATA[i].tools, OS_TYPE, 1, <<>>)
         IN  /\ category_tools' = TOOLS_DATA[i].tools
             /\ final_compatible_tools' = shown
             /\ menu' = IF display_tool_menu(shown) = "NameError"
                        THEN "crashed" ELSE "tools"
    /\ filtered' = TRUE
    /\ installed_tools_names' = rescan(installed_tools_names, dirs, files)
    /\ UNCHANGED <<OS_TYPE, detectVars, ensureVars, callVars, fsVars, diffVars,
                   pc, tool_data, system_dependencies, dep_i, post_j, ensured,
                   exit_line, pre_dirs, succeeded, TOOLS_DATA,
                   selected_tool_data, via, update_checks, fetch_outcome>>

\* uht.py:128-137, 181-183: the answer to the tool menu.  After the message for
\* an empty list display_tool_menu returns None, and None.isdigit() at line 135
\* raises AttributeError.  Back in the main menu the locals of the category
\* are not read again before line 100 assigns them anew.
ToolMenuChoice ==
    /\ menu = "tools"
    /\ IF display_tool_menu(final_compatible_tools) = "None"
       THEN /\ menu' = "crashed"
            /\ UNCHANGED <<filterVars, installed_tools_names, selected_tool_data>>
       ELSE \/ /\ menu' = "main"
               /\ category_tools' = <<>>
               /\ final_compatible_tools' = <<>>
               /\ filtered' = FALSE
               /\ installed_tools_names' = {}
               /\ UNCHANGED selected_tool_data
            \/ /\ menu' = "exited"
               /\ UNCHANGED <<filterVars, installed_tools_names, selected_tool_data>>
            \/ \E i \in 1..Len(final_compatible_tools) :
                 /\ selected_tool_data' = final_compatible_tools[i]
                 /\ menu' = "options"
                 /\ UNCHANGED <<filterVars, installed_tools_names>>
    /\ UNCHANGED <<OS_TYPE, detectVars, ensureVars, callVars, fsVars, diffVars,
                   pc, tool_data, system_dependencies, dep_i, post_j, ensured,
                   exit_line, pre_dirs, succeeded, TOOLS_DATA, via, update_checks,
                   fetch_outcome>>

\* uht.py:142-146: "B" goes back to the tool menu, "0" leaves through sys.exit.
\* What the last call returned is of no account once the options are left.
OptionsLeave ==
    /\ menu = "options"
    /\ pc = "idle"
    /\ menu' \in {"tools", "exited"}
    /\ selected_tool_data' = NoTool
    /\ ret' = "none"
    /\ exit_line' = 0
    /\ UNCHANGED <<OS_TYPE, detectVars, filterVars, ensureVars, os_type, cmds,
                   fsVars, diffVars, pc, tool_data, system_dependencies, dep_i,
                   post_j, ensured, pre_dirs, installed_tools_names, succeeded,
                   TOOLS_DATA, via, update_checks, fetch_outcome>>

\* The variables of a call of install_tool when it starts (tool_manager.py:36-48),
\* for the tool selected and the OS type found at startup.
StartInstall(caller) ==
    /\ tool_data' = selected_tool_data
    /\ os_type' = OS_TYPE
    /\ system_dependencies' = resolve_dependencies(selected_tool_data, OS_TYPE)
    /\ dep_i' = 1
    /\ post_j' = 1
    /\ ensured' = <<>>
    /\ cmds' = <<>>
    /\ ret' = "none"
    /\ exit_line' = 0
    /\ pre_dirs' = dirs
    /\ pc' = "deps"
    /\ via' = caller

\* uht.py:147-148: "1" calls install_tool for the selected tool.
ChooseInstall ==
    /\ menu = "options"
    /\ pc = "idle"
    /\ StartInstall("install")
    /\ UNCHANGED <<OS_TYPE, detectVars, filterVars, ensureVars, fsVars, diffVars,
                   installed_tools_names, succeeded, TOOLS_DATA, menu,
                   selected_tool_data, update_checks, fetch_outcome>>

\* The tool is neither cloned nor given a path: uht.py:153.
IsManual(tool) == ~Truthy(tool.install_path) /\ ~Truthy(tool.github_url)

\* uht.py:151-156, 162, 174-177: "2" for a manual tool, or for a tool whose
\* name a fresh scan holds; the latter runs if installed_tools_names holds it.
RunTool ==
    /\ menu = "options"
    /\ pc = "idle"
    /\ \/ IsManual(selected_tool_data)
       \/ /\ selected_tool_data.name \in get_installed_tools_names(TOOLS_DIR, dirs, files)
          /\ selected_tool_data.name \in installed_tools_names
    /\ \E ok \in BOOLEAN :
         LET r == run_tool(selected_tool_data, get_os_type(host), dirs, files, ok)
         IN  /\ ret' = RetOf(r.ret)
             /\ exit_line' = r.line
    /\ UNCHANGED <<OS_TYPE, detectVars, filterVars, ensureVars, fsVars, diffVars,
                   os_type, cmds, pc, tool_data, system_dependencies, dep_i, post_j,
                   ensured, pre_dirs, installed_tools_names, succeeded, menuVars>>

\* uht.py:162-165: "2" for a tool whose name a fresh scan does not hold, and
\* "y" to the question whether to install it now.
RunInstall ==
    /\ menu = "options"
    /\ pc = "idle"
    /\ ~IsManual(selected_tool_data)
    /\ selected_tool_data.name \notin get_installed_tools_names(TOOLS_DIR, dirs, files)
    /\ StartInstall("run")
    /\ UNCHANGED <<OS_TYPE, detectVars, filterVars, ensureVars, fsVars, diffVars,
                   installed_tools_names, succeeded, TOOLS_DATA, menu,
                   selected_tool_data, update_checks, fetch_outcome>>

\* uht.py:150 after the scan of line 149, and uht.py:167-177 after the scan of
\* line 166: reached from "2", the tool runs if installed_tools_names holds its
\* name, and "Installation failed" is printed if not.
AfterInstall ==
    /\ menu = "options"
    /\ pc = "scanned"
    /\ IF via = "run" /\ selected_tool_data.name \in installed_tools_names
       THEN \E ok \in BOOLEAN :
              LET r == run_tool(selected_tool_data, get_os_type(host), dirs, files, ok)
              IN  /\ ret' = RetOf(r.ret)
                  /\ exit_line' = r.line
       ELSE UNCHANGED <<ret, exit_line>>
    /\ menu' = next_after_install(ret)
    /\ pc' = "idle"
    /\ via' = "none"
    /\ tool_data' = NoTool
    /\ os_type' = "none"
    /\ system_dependencies' = <<>>
    /\ dep_i' = 1
    /\ post_j' = 1
    /\ ensured' = <<>>
    /\ pre_dirs' = {}
    /\ UNCHANGED <<OS_TYPE, detectVars, filterVars, ensureVars, fsVars, diffVars,
                   cmds, installed_tools_names, succeeded, TOOLS_DATA,
                   selected_tool_data, update_checks, fetch_outcome>>

\* uht.py:184-193: the update check is chosen.  With a document that is not
\* empty the installed names are scanned and the catalogs compared; otherwise
\* an error is printed.  Either way the main menu follows.  The working copies
\* examined answer git alike.
CheckForUpdates ==
    /\ menu = "main"
    /\ update_checks < MaxUpdateChecks
    /\ update_checks' = update_checks + 1
    /\ \E outcome \in FetchOutcomes, doc \in MenuRemotes :
         LET remote_data == get_remote_tools_data(outcome, doc)
             scan == get_installed_tools_names(TOOLS_DIR, dirs, files)
         IN  /\ fetch_outcome' = outcome
             /\ IF remote_data.raised
                THEN /\ menu' = "crashed"
                     /\ UNCHANGED <<diffVars, files>>
                ELSE IF ~remote_data.none /\ remote_data.value # <<>>
                THEN /\ menu' = "main"
                     /\ installed_names' = scan
                     /\ local_tools_data' = TOOLS_DATA
                     /\ remote_tools_data' = remote_data.value
                     /\ new_tools' = find_new_tools(TOOLS_DATA, remote_data.value, scan)
                     /\ diffed' = TRUE
                     /\ \E order \in Orders(scan), git \in GitOutcomes :
                          LET r == check_installed(order, flat_tools(TOOLS_DATA),
                                                   dirs, [n \in scan |-> git])
                          IN  /\ tools_to_update' = r.update
                              /\ scan_order' = order
                              /\ git_outcome' = [n \in scan |-> git]
                              /\ files' = files \cup {d \o <<".git", "FETCH_HEAD">> :
                                                         d \in r.fetched}
                ELSE /\ menu' = "main"
                     /\ UNCHANGED <<diffVars, files>>
    /\ UNCHANGED <<OS_TYPE, detectVars, filterVars, ensureVars, callVars, dirs,
                   installVars, TOOLS_DATA, selected_tool_data, via>>

\* uht.py:195-201 and 67-82: git is ensured, then `git pull` runs in the
\* framework's directory; after a pull that succeeded load_config reads the
\* configuration again and leaves through sys.exit(1) if it cannot.  The pull
\* may have brought a file into the installation root.
SelfUpdate ==
    /\ menu = "main"
    /\ \E path \in SUBSET ObservableCommands(<<"git">>, OS_TYPE),
          update_ok, install_ok, pull_ok, config_ok \in BOOLEAN,
          catalog \in MenuCatalogs, brought \in SUBSET {PulledFile} :
         LET r == install_system_package(<<"git">>, OS_TYPE, path, update_ok, install_ok)
         IN  IF r.ret /\ pull_ok
             THEN /\ files' = files \cup brought
                  /\ dirs' = dirs \cup {Parent(f) : f \in brought}
                  /\ IF config_ok
                     THEN TOOLS_DATA' = catalog /\ menu' = "main"
                     ELSE menu' = "exited" /\ UNCHANGED TOOLS_DATA
             ELSE UNCHANGED <<fsVars, TOOLS_DATA, menu>>
    /\ UNCHANGED <<OS_TYPE, detectVars, filterVars, ensureVars, callVars,
                   installVars, diffVars, selected_tool_data, via, update_checks,
                   fetch_outcome>>

\* The post-install commands of install_tool need an install path, and no tool
\* with one gets past display_tool_menu; its other steps are those of Spec.
NextMenu ==
    \/ MainExit
    \/ SelectCategory
    \/ ToolMenuChoice
    \/ OptionsLeave
    \/ ChooseInstall
    \/ RunTool
    \/ RunInstall
    \/ EnsureDep
    \/ Fetch
    \/ PostCheck
    \/ Requirements
    \/ Scan
    \/ AfterInstall
    \/ CheckForUpdates
    \/ SelfUpdate

SpecMenu == InitMenu /\ [][NextMenu]_vars

(***************************************************************************)
(* Properties of the menu session                                          *)
(***************************************************************************)
\* The ways the request for the remote catalog fails that C16 names.
RemoteFailures == {"timeout", "connection_error", "parse_error"}

\* C16: an update check whose request times out, cannot connect or cannot be
\* parsed raises nothing: no catalogs are compared, no process runs, the disk
\* is left alone, and the session is back at the main menu.
C16_RemoteFailureSkipsCheck ==
    [][(update_checks' = update_checks + 1 /\ fetch_outcome' \in RemoteFailures) =>
          /\ menu' = "main"
          /\ UNCHANGED <<diffVars, cmds, fsVars>>]_vars

\* The request timed out, nothing has been compared in the session, and a
\* category and a tool have been chosen since.
C16_Witness ==
    /\ fetch_outcome = "timeout"
    /\ update_checks > 0
    /\ ~diffed
    /\ menu = "options"

\* C17: when install_tool has returned False the session does not end: the
\* scan follows, and then the options of the tool are offered again.
C17_FailureKeepsSession ==
    [][(pc \in {"returned", "scanned"} /\ ret = "False") =>
          /\ menu' = "options"
          /\ pc = "scanned" => pc' = "idle"]_vars

\* A dependency could not be installed on the unsupported host: install_tool
\* returned False at line 54 and the options are offered again.
C17_Witness ==
    /\ menu = "options"
    /\ pc = "idle"
    /\ ret = "False"
    /\ exit_line = 54
    /\ OS_TYPE = "unsupported"
    /\ selected_tool_data = OsintTool

\* What a scan of the installation root finds now: the directories in it and
\* the .txt files in it.
RootScan ==
    {BaseName(x) : x \in {d \in dirs : Len(d) > 0 /\ Parent(d) = TOOLS_DIR}}
    \cup {BaseName(x) : x \in {f \in files : /\ Len(f) > 0
                                            /\ Parent(f) = TOOLS_DIR
                                            /\ Suffix(BaseName(f)) = ".txt"}}

\* C19: wherever the tool menu or a tool's options are offered, and when the
\* caller looks at the scan after install_tool, installed_tools_names is what
\* a scan of the root finds at that moment; and an update check that compares
\* catalogs does so with the names a scan finds when it is chosen.
C19_InstalledSetNeverStale ==
    /\ []((menu \in {"tools", "options"} /\ pc \in {"idle", "scanned"}) =>
            installed_tools_names = RootScan)
    /\ [][(update_checks' = update_checks + 1 /\ diffVars' # diffVars) =>
            installed_names' = RootScan]_vars

\* After a self-update brought a word list into the root, a category was
\* chosen and a tool installed: the set holds the word list and sqlmap.
C19_Witness ==
    /\ menu = "options"
    /\ pc = "idle"
    /\ ret = "True"
    /\ exit_line = 111
    /\ PulledFile \in files
    /\ installed_tools_names = {"sqlmap", "nmap", "rockyou.txt"}

====
